---- MODULE Spec2Model ----
(***************************************************************************)
(* Model of src/imgrec.py: the batch OCR tool.  process_images fans a list *)
(* of paths out over a ThreadPoolExecutor; every unit of work runs         *)
(* recognize_image_content, which reads and writes the process-wide cache  *)
(* (a plain dict), pushes messages to result_queue (a queue.Queue) and,    *)
(* for .bpg inputs, owns a temporary PNG.  display_results drains the      *)
(* queue afterwards.  Spec is one call of process_images, FairSpec the     *)
(* same under fair scheduling, SessionSpec the prompt loop of main().      *)
(*                                                                         *)
(* Strings are sequences of one-character strings, so that lower(),        *)
(* endswith() and strip() are computed and not assumed.                    *)
(***************************************************************************)
EXTENDS Integers, Sequences, FiniteSets, TLC

\* ------------------------------------------------------------- bounds
MaxBatch == 2   \* longest list handed to process_images
PoolSize == 2   \* largest max_workers of the executor
MaxCalls == 2   \* calls of process_images in one session of main()

\* Python's None, by what it stands in for: an exception, a text, a file name
None == "None"
NoText == <<"None">>
NoFile == <<>>

\* ------------------------------------------------ strings (str methods)
\* str.lower() on one character, for the characters the paths use
LowerChar(c) ==
    CASE c = "B" -> "b"
      [] c = "P" -> "p"
      [] c = "G" -> "g"
      [] c = "Q" -> "q"
      [] OTHER  -> c

\* str.lower()
Lower(s) == [i \in 1..Len(s) |-> LowerChar(s[i])]

\* str.endswith(suffix) for one suffix
EndsWithOne(s, suf) ==
    /\ Len(suf) <= Len(s)
    /\ SubSeq(s, Len(s) - Len(suf) + 1, Len(s)) = suf

\* str.endswith(tuple of suffixes): true when any of them matches
EndsWith(s, sufs) == \E i \in 1..Len(sufs) : EndsWithOne(s, sufs[i])

\* the characters str.strip() removes
Whitespace == {" ", "\n", "\t", "\f"}

RECURSIVE LStrip(_)
LStrip(s) == IF s # <<>> /\ Head(s) \in Whitespace THEN LStrip(Tail(s)) ELSE s

RECURSIVE RStrip(_)
RStrip(s) ==
    IF s # <<>> /\ s[Len(s)] \in Whitespace THEN RStrip(SubSeq(s, 1, Len(s) - 1)) ELSE s

\* str.strip()
Strip(s) == RStrip(LStrip(s))

\* ---------------------------------------------------- program constants
SUPPORTED_FORMATS ==
    << <<".", "j", "p", "g">>, <<".", "p", "n", "g">>,
       <<".", "b", "m", "p">>, <<".", "b", "p", "g">> >>

BPG_SUFFIX == <<".", "b", "p", "g">>

DEFAULT_LANG == "eng"

\* ------------------------------------------- the environment of a run
\* The files of the run.  a.png holds text, w.bmp is a white image, x.jpg
\* cannot be opened, s.BPG is a BPG scan (upper-case suffix), n.txt is not
\* an image.
a_png == <<"a", ".", "p", "n", "g">>
w_bmp == <<"w", ".", "b", "m", "p">>
x_jpg == <<"x", ".", "j", "p", "g">>
s_BPG == <<"s", ".", "B", "P", "G">>
n_txt == <<"n", ".", "t", "x", "t">>

Paths == {a_png, w_bmp, x_jpg, s_BPG, n_txt}

Langs == {DEFAULT_LANG, "chi_sim"}

\* what pytesseract.image_to_string returns for the pixels of a file under
\* a language model (the OCR engine is an opaque collaborator; its answer
\* depends on the image and on the language)
OcrText(p, l) ==
    CASE p = a_png /\ l = "eng" -> <<"H", "I", "\n">>
      [] p = a_png /\ l # "eng" -> <<"N", "I", "\n">>
      [] p = s_BPG /\ l = "eng" -> <<" ", "O", "K", "\n">>
      [] p = s_BPG /\ l # "eng" -> <<"\n", "\f">>
      [] p = w_bmp /\ l = "eng" -> <<>>
      [] OTHER                  -> <<" ", "\n">>

\* the exceptions Image.open can raise on a file that cannot be opened
OpenFailures == {"FileNotFoundError", "PermissionError", "UnidentifiedImageError"}

\* what opening a file does: "ok", or one of the failures
OpenOutcomes(p) == IF p = x_jpg THEN OpenFailures ELSE {"ok"}

\* the exception os.remove raises when it fails
RemoveFailures == {"PermissionError"}

\* exception classes below OSError (Python's hierarchy)
IsInstance(e, cls) ==
    \/ e = cls
    \/ cls = "OSError" /\ e \in {"FileNotFoundError", "PermissionError", "UnidentifiedImageError"}
    \/ cls = "Exception"

\* str(e) of an exception, as the last handler reports it
StrOf(e) == <<e>>

Units == 1..MaxBatch

VARIABLES
    mainpc,         \* where the calling thread is
    calls,          \* calls of process_images so far
    image_paths,    \* the list given to the current call
    lang,           \* its language code
    session,        \* main(): the input last read and what the iteration printed
    max_workers,    \* the size of the executor's pool
    work_queue,     \* the executor's FIFO queue of submitted work items
    pc,             \* pc[u]: where unit u (the u-th submitted path) is
    runs,           \* log: how many times a pool thread took unit u
    temp_png_path,  \* the local of recognize_image_content, per unit
    text,           \* the local text, per unit
    exc,            \* the exception in flight in a unit, or None
    cache,          \* the module-level dict: DOMAIN cache are its keys
    result_queue,   \* the module-level queue.Queue, head first
    tempfiles,      \* the temporary files that exist on disk
    printed,        \* what display_results has printed in this drain
    ops,            \* log: the collaborator calls each unit has made
    pushed,         \* log: the messages each unit has put, in order
    created,        \* log: the temporary file each unit created, or None
    history,        \* log: <<path, kind of its first message>> of every unit that returned
    prior           \* log: the kinds history held for a unit's path when it started

vars == <<mainpc, calls, image_paths, lang, session, max_workers, work_queue, pc, runs,
          temp_png_path, text, exc,
          cache, result_queue, tempfiles, printed, ops, pushed, created,
          history, prior>>

\* the caller's own state, and the pool's bookkeeping
callvars == <<mainpc, calls, image_paths, lang, session, max_workers>>
poolvars == <<work_queue, runs>>

\* what no step of recognize_image_content changes
outer == <<callvars, poolvars, printed, prior>>

unitvars == <<work_queue, pc, runs, temp_png_path, text, exc, ops, pushed, created, prior>>

N == Len(image_paths)

\* a formatted message: the path it names, its kind, and the text it carries
Msg(p, kind, body) == [path |-> p, kind |-> kind, body |-> body]

\* faulty variant of Enqueue: without the mutex, a put made while the queue is
\* being appended to by another worker overwrites that worker's slot
Enqueue_Racy(q, m) ==
    IF q # <<>> /\ Cardinality({u \in Units : pc[u] \notin {"none", "queued", "done"}}) > 1
      THEN [q EXCEPT ![Len(q)] = m]
      ELSE Append(q, m)

\* queue.Queue.put: the queue's mutex makes the append atomic
Enqueue(q, m) == Append(q, m)

\* result_queue.put(m) by unit u
Put(u, m) ==
    /\ result_queue' = Enqueue(result_queue, m)
    /\ pushed' = [pushed EXCEPT ![u] = Append(@, m)]

\* faulty variant of IsSupported: the suffix is compared without lower()
IsSupported_CaseSensitive(p) == EndsWith(p, SUPPORTED_FORMATS)

\* line 57: the format gate
IsSupported(p) == EndsWith(Lower(p), SUPPORTED_FORMATS)

\* line 68
IsBpg(p) == EndsWithOne(Lower(p), BPG_SUFFIX)

\* faulty variant of InCache: the entry counts only when it holds the text
\* of the language now asked for, as if the key were the path and the language
InCache_ByLanguage(p) == p \in DOMAIN cache /\ cache[p] = OcrText(p, lang)

\* line 62
InCache(p) == p \in DOMAIN cache

\* faulty variant of CacheStore: the write is lost
CacheStore_Lost(p, t) == cache

\* faulty variant of CacheStore: the dictionary is rebound to a new one that
\* holds the new entry only
CacheStore_Fresh(p, t) == [q \in {p} |-> t]

\* line 85: cache[image_path] = text
CacheStore(p, t) == [q \in DOMAIN cache \cup {p} |-> IF q = p THEN t ELSE cache[q]]

Init ==
    /\ mainpc = "idle"
    /\ calls = 0
    /\ image_paths = <<>>
    /\ lang = DEFAULT_LANG
    /\ session = [input |-> <<>>, report |-> "none", skipped |-> FALSE]
    /\ max_workers \in 1..PoolSize
    /\ work_queue = <<>>
    /\ pc = [u \in Units |-> "none"]
    /\ runs = [u \in Units |-> 0]
    /\ temp_png_path = [u \in Units |-> NoFile]
    /\ text = [u \in Units |-> NoText]
    /\ exc = [u \in Units |-> None]
    /\ cache = <<>>
    /\ result_queue = <<>>
    /\ tempfiles = {}
    /\ printed = <<>>
    /\ ops = [u \in Units |-> {}]
    /\ pushed = [u \in Units |-> <<>>]
    /\ created = [u \in Units |-> NoFile]
    /\ history = {}
    /\ prior = [u \in Units |-> {}]

\* ------------------------------------------------------- the caller
\* all lists of at most MaxBatch paths
Batches == UNION {[1..n -> Paths] : n \in 0..MaxBatch}

\* lines 150, 102-104: process_images(image_paths, lang) is called and the
\* executor is created; nothing is submitted yet
Dispatch(paths, l) ==
    /\ mainpc = "idle"
    /\ calls' = calls + 1
    /\ image_paths' = paths
    /\ lang' = l
    /\ mainpc' = IF Len(paths) = 0 THEN "wait" ELSE "submit"
    /\ work_queue' = <<>>
    /\ pc' = [u \in Units |-> "none"]
    /\ runs' = [u \in Units |-> 0]
    /\ temp_png_path' = [u \in Units |-> NoFile]
    /\ text' = [u \in Units |-> NoText]
    /\ exc' = [u \in Units |-> None]
    /\ ops' = [u \in Units |-> {}]
    /\ pushed' = [u \in Units |-> <<>>]
    /\ created' = [u \in Units |-> NoFile]
    /\ prior' = [u \in Units |-> {}]
    /\ printed' = <<>>
    /\ UNCHANGED <<max_workers, cache, result_queue, tempfiles, history>>

\* the one call of a fresh process
Call(paths, l) ==
    /\ calls = 0
    /\ Dispatch(paths, l)
    /\ UNCHANGED session

\* the next path the list comprehension of line 105 submits
NextToSubmit == CHOOSE u \in 1..N : pc[u] = "none" /\ \A v \in 1..(u - 1) : pc[v] # "none"

\* line 105: executor.submit(recognize_image_content, path, lang), one path
\* per step, in list order; the work item joins the executor's FIFO queue
Submit ==
    /\ mainpc = "submit"
    /\ LET u == NextToSubmit IN
        /\ pc' = [pc EXCEPT ![u] = "queued"]
        /\ work_queue' = Append(work_queue, u)
        /\ mainpc' = IF u = N THEN "wait" ELSE "submit"
    /\ UNCHANGED <<calls, image_paths, lang, session, max_workers, runs, temp_png_path, text, exc,
                   cache, result_queue, tempfiles, printed, ops, pushed, created,
                   history, prior>>

\* faulty variant of AllDone: the caller does not wait (shutdown(wait=False), no
\* as_completed loop)
AllDone_NoWait == TRUE

\* lines 106-110 and the exit of the with block of line 104: as_completed
\* yields every future once it is done, and shutdown(wait=True) joins the
\* workers
AllDone == \A u \in 1..N : pc[u] = "done"

\* process_images returns
Return ==
    /\ mainpc = "wait"
    /\ AllDone
    /\ mainpc' = "returned"
    /\ UNCHANGED <<calls, image_paths, lang, session, max_workers, unitvars, cache,
                   result_queue, tempfiles, printed, history>>

\* faulty variant of QueueEmpty: the drain stops after the first message (an
\* if where line 114 has a while)
QueueEmpty_AfterFirst == result_queue = <<>> \/ printed # <<>>

\* line 114: the loop condition of display_results
QueueEmpty == result_queue = <<>>

\* lines 112-116: display_results, called at line 153 after process_images
\* has returned; one step per message printed, and the step that finds the
\* queue empty ends the loop
Display ==
    /\ mainpc \in {"returned", "display"}
    /\ IF QueueEmpty
         THEN /\ mainpc' = "idle"
              /\ UNCHANGED <<result_queue, printed>>
         ELSE /\ printed' = Append(printed, Head(result_queue))
              /\ result_queue' = Tail(result_queue)
              /\ mainpc' = "display"
    /\ UNCHANGED <<calls, image_paths, lang, session, max_workers, unitvars, cache,
                   tempfiles, history>>

\* ---------------------------------------------------- the worker pool
\* the units a pool thread is executing
Running == {u \in 1..N : pc[u] \notin {"none", "queued", "done"}}

\* faulty variant of ThreadFree: a thread whose unit ended with an error
\* message is gone and its slot is never given to another item
ThreadFree_SlotLostOnFailure ==
    Cardinality(Running \cup {u \in 1..N : /\ pc[u] = "done"
                                          /\ pushed[u] # <<>>
                                          /\ pushed[u][Len(pushed[u])].kind \notin
                                                {"recognized", "no_text", "from_cache"}})
        < max_workers

\* faulty variant of ThreadFree: the pool starts a thread for every queued item
ThreadFree_Unbounded == TRUE

\* a pool thread is free, or the pool may still grow (the executor starts
\* threads on demand, up to max_workers)
ThreadFree == Cardinality(Running) < max_workers

\* the work queue after a pool thread took its head
Dequeue(q) == Tail(q)

\* a pool thread takes the head of the work queue and enters
\* recognize_image_content (line 53)
Start ==
    /\ work_queue # <<>>
    /\ ThreadFree
    /\ LET u == Head(work_queue) IN
        /\ pc' = [pc EXCEPT ![u] = "gate"]
        /\ runs' = [runs EXCEPT ![u] = @ + 1]
        /\ prior' = [prior EXCEPT ![u] = {h[2] : h \in {g \in history : g[1] = image_paths[u]}}]
    /\ work_queue' = Dequeue(work_queue)
    /\ UNCHANGED <<callvars, temp_png_path, text, exc, cache, result_queue, tempfiles,
                   printed, ops, pushed, created, history>>

\* ------------------------------------------- recognize_image_content
\* the function returns in this step, in which it put a message of kind k
\* (None: it put none): the future is done, the pool thread is free again,
\* and the log records the path with the kind of the unit's first message
Returns(u, k) ==
    /\ pc' = [pc EXCEPT ![u] = "done"]
    /\ history' = history \cup
          {<<image_paths[u], IF pushed[u] = <<>> THEN k ELSE pushed[u][1].kind>>}

\* lines 56-59: the format gate; an unsupported path is reported and the
\* function returns
Gate(u) ==
    /\ pc[u] = "gate"
    /\ LET p == image_paths[u] IN
        IF ~IsSupported(p)
          THEN /\ Put(u, Msg(p, "unsupported_format", NoText))
               /\ Returns(u, "unsupported_format")
          ELSE /\ pc' = [pc EXCEPT ![u] = "cache"]
               /\ UNCHANGED <<result_queue, pushed, history>>
    /\ UNCHANGED <<outer, temp_png_path, text, exc, cache, tempfiles, ops, created>>

\* line 62: if image_path in cache; on a miss, lines 67-68 choose the branch
CacheCheck(u) ==
    /\ pc[u] = "cache"
    /\ LET p == image_paths[u] IN
        /\ pc' = [pc EXCEPT ![u] = IF InCache(p) THEN "hit"
                                   ELSE IF IsBpg(p) THEN "convert" ELSE "recognize"]
        /\ ops' = [ops EXCEPT ![u] = @ \cup {"cache_read"}]
    /\ UNCHANGED <<outer, temp_png_path, text, exc, cache, result_queue, tempfiles,
                   pushed, created, history>>

\* lines 63-64: the cached text is read and reported, and the function returns
PutHit(u) ==
    /\ pc[u] = "hit"
    /\ Put(u, Msg(image_paths[u], "from_cache", cache[image_paths[u]]))
    /\ Returns(u, "from_cache")
    /\ UNCHANGED <<outer, temp_png_path, text, exc, cache, tempfiles, ops, created>>

\* the name tempfile.NamedTemporaryFile picks: a name no file has; it is
\* identified by the call and the unit that asked for it
TempName(u) == <<calls, u>>

\* what convert_bpg_to_png can meet: the probe of line 35 raises
\* FileNotFoundError ("missing") or CalledProcessError ("broken"), the
\* decode of line 47 raises CalledProcessError ("decode_failed"), or both
\* succeed ("ok")
ConvertOutcomes == {"missing", "broken", "decode_failed", "ok"}

\* faulty variant of ProbeFailed: a missing tool is not noticed by the probe
ProbeFailed_MissingUnnoticed(o) == o = "broken"

\* lines 36-41: the probe failed; the cause is printed and None returned
ProbeFailed(o) == o \in {"missing", "broken"}

\* lines 32-51, called from line 69: convert_bpg_to_png(image_path).  The
\* temporary file is created with delete=False at line 44, before the
\* decode runs; on "decode_failed" the function prints, returns None and
\* the file stays on disk
Convert(u, outcome) ==
    /\ pc[u] = "convert"
    /\ outcome \in ConvertOutcomes
    /\ IF ProbeFailed(outcome)
         THEN /\ ops' = [ops EXCEPT ![u] = @ \cup {"probe", "print_" \o outcome}]
              /\ pc' = [pc EXCEPT ![u] = "bpg_failed"]
              /\ UNCHANGED <<tempfiles, temp_png_path, created>>
         ELSE /\ tempfiles' = tempfiles \cup {TempName(u)}
              /\ created' = [created EXCEPT ![u] = TempName(u)]
              /\ IF outcome = "ok"
                   THEN /\ ops' = [ops EXCEPT ![u] = @ \cup {"probe", "mktemp", "decode"}]
                        /\ temp_png_path' = [temp_png_path EXCEPT ![u] = TempName(u)]
                        /\ pc' = [pc EXCEPT ![u] = "recognize"]
                   ELSE /\ ops' = [ops EXCEPT ![u] = @ \cup
                                     {"probe", "mktemp", "decode", "print_" \o outcome}]
                        /\ UNCHANGED temp_png_path
                        /\ pc' = [pc EXCEPT ![u] = "bpg_failed"]
    /\ UNCHANGED <<outer, text, exc, cache, result_queue, pushed, history>>

\* lines 70-72: convert_bpg_to_png returned None; one message for every cause
PutBpgFailed(u) ==
    /\ pc[u] = "bpg_failed"
    /\ Put(u, Msg(image_paths[u], "bpg_failed", NoText))
    /\ Returns(u, "bpg_failed")
    /\ UNCHANGED <<outer, temp_png_path, text, exc, cache, tempfiles, ops, created>>

\* what pytesseract.image_to_string can do on an opened image: answer, or
\* raise TesseractNotFoundError when the engine is not installed
OcrOutcomes == {"ok", "TesseractNotFoundError"}

\* lines 79-81: Image.open(img_path).convert('L'), the contrast boost and
\* pytesseract.image_to_string(img, lang=lang).  img_path is the temporary
\* PNG for a .bpg input (line 73) and the path itself otherwise (line 75)
Recognize(u, opened, ocr) ==
    /\ pc[u] = "recognize"
    /\ opened \in OpenOutcomes(image_paths[u])
    /\ ocr \in OcrOutcomes
    /\ IF opened # "ok"
         THEN /\ ocr = "ok"
              /\ exc' = [exc EXCEPT ![u] = opened]
              /\ ops' = [ops EXCEPT ![u] = @ \cup {"open", "raise_" \o opened}]
              /\ pc' = [pc EXCEPT ![u] = "finally"]
              /\ UNCHANGED text
         ELSE IF ocr # "ok"
           THEN /\ exc' = [exc EXCEPT ![u] = ocr]
                /\ ops' = [ops EXCEPT ![u] = @ \cup {"open", "ocr", "raise_" \o ocr}]
                /\ pc' = [pc EXCEPT ![u] = "finally"]
                /\ UNCHANGED text
           ELSE /\ text' = [text EXCEPT ![u] = OcrText(image_paths[u], lang)]
                /\ ops' = [ops EXCEPT ![u] = @ \cup {"open", "ocr"}]
                /\ pc' = [pc EXCEPT ![u] = "report"]
                /\ UNCHANGED exc
    /\ UNCHANGED <<outer, temp_png_path, cache, result_queue, tempfiles, pushed, created,
                   history>>

\* faulty variant of HasText: the text is tested without strip()
HasText_NoStrip(t) == t # <<>>

\* line 83: if text.strip()
HasText(t) == Strip(t) # <<>>

\* faulty variant of Report: lines 84 and 85 are swapped, the cache entry is
\* written first and the recognized-text message is put in a later step
Report_CacheFirst(u) ==
    /\ pc[u] = "report"
    /\ LET p == image_paths[u] IN
        IF HasText(text[u]) /\ "cache_write" \notin ops[u]
          THEN /\ cache' = CacheStore(p, text[u])
               /\ ops' = [ops EXCEPT ![u] = @ \cup {"cache_write"}]
               /\ UNCHANGED <<pc, result_queue, pushed>>
          ELSE IF HasText(text[u])
            THEN /\ Put(u, Msg(p, "recognized", text[u]))
                 /\ pc' = [pc EXCEPT ![u] = "store"]
                 /\ UNCHANGED <<cache, ops>>
            ELSE /\ Put(u, Msg(p, "no_text", NoText))
                 /\ pc' = [pc EXCEPT ![u] = "finally"]
                 /\ UNCHANGED <<cache, ops>>
    /\ UNCHANGED <<outer, temp_png_path, text, exc, tempfiles, created, history>>

\* lines 83-84 and 86-87: the outcome of the recognition is reported
Report(u) ==
    /\ pc[u] = "report"
    /\ LET p == image_paths[u] IN
        IF HasText(text[u])
          THEN /\ Put(u, Msg(p, "recognized", text[u]))
               /\ pc' = [pc EXCEPT ![u] = "store"]
          ELSE /\ Put(u, Msg(p, "no_text", NoText))
               /\ pc' = [pc EXCEPT ![u] = "finally"]
    /\ UNCHANGED <<outer, temp_png_path, text, exc, cache, tempfiles, ops, created,
                   history>>

\* line 85: cache[image_path] = text, after the message was put
Store(u) ==
    /\ pc[u] = "store"
    /\ cache' = CacheStore(image_paths[u], text[u])
    /\ ops' = [ops EXCEPT ![u] = @ \cup {"cache_write"}]
    /\ pc' = [pc EXCEPT ![u] = "finally"]
    /\ UNCHANGED <<outer, temp_png_path, text, exc, result_queue, tempfiles, pushed,
                   created, history>>

\* what os.remove can do
RemoveOutcomes == {"ok"} \cup RemoveFailures

\* faulty variant of MustRemove: the cleanup runs only when the body raised
\* nothing (an os.remove at the end of the try body, not in a finally clause)
MustRemove_OnSuccessOnly(u) == temp_png_path[u] # NoFile /\ exc[u] = None

\* line 90: if temp_png_path
MustRemove(u) == temp_png_path[u] # NoFile

\* lines 88-91: the finally clause.  With a temporary file, os.remove runs;
\* when it raises, its exception replaces the one in flight, if any.  The
\* function returns when no exception is in flight
Finally(u, removed) ==
    /\ pc[u] = "finally"
    /\ removed \in RemoveOutcomes
    /\ LET e == IF MustRemove(u) /\ removed # "ok" THEN removed ELSE exc[u] IN
        /\ exc' = [exc EXCEPT ![u] = e]
        /\ IF e = None
             THEN Returns(u, None)
             ELSE /\ pc' = [pc EXCEPT ![u] = "except"]
                  /\ UNCHANGED history
    /\ IF ~MustRemove(u)
         THEN /\ removed = "ok"
              /\ UNCHANGED <<tempfiles, ops>>
         ELSE /\ ops' = [ops EXCEPT ![u] = @ \cup
                            IF removed = "ok" THEN {"remove"} ELSE {"remove", "remove_failed"}]
              /\ tempfiles' = IF removed = "ok" THEN tempfiles \ {temp_png_path[u]}
                              ELSE tempfiles
    /\ UNCHANGED <<outer, temp_png_path, text, cache, result_queue, pushed, created>>

\* lines 93-100: the except clauses, tried in order
HandlerKind(e) ==
    IF IsInstance(e, "FileNotFoundError") THEN "file_not_found"
    ELSE IF IsInstance(e, "PermissionError") THEN "permission_denied"
    ELSE IF IsInstance(e, "TesseractNotFoundError") THEN "tesseract_missing"
    ELSE "error"

\* faulty variant of Except: there is no catch-all clause, so an unclassified
\* exception leaves the function and nothing is put
Except_NoCatchAll(u) ==
    /\ pc[u] = "except"
    /\ LET k == HandlerKind(exc[u]) IN
        IF k = "error"
          THEN /\ Returns(u, None)
               /\ UNCHANGED <<result_queue, pushed, exc>>
          ELSE /\ Put(u, Msg(image_paths[u], k, NoText))
               /\ Returns(u, k)
               /\ exc' = [exc EXCEPT ![u] = None]
    /\ UNCHANGED <<outer, temp_png_path, text, cache, tempfiles, ops, created>>

\* lines 93-100: the exception is reported and the function returns
Except(u) ==
    /\ pc[u] = "except"
    /\ LET k == HandlerKind(exc[u]) IN
        /\ Put(u, Msg(image_paths[u], k, IF k = "error" THEN StrOf(exc[u]) ELSE NoText))
        /\ Returns(u, k)
    /\ exc' = [exc EXCEPT ![u] = None]
    /\ UNCHANGED <<outer, temp_png_path, text, cache, tempfiles, ops, created>>

\* ------------------------------------------------------ specification
\* one call of process_images in a fresh process, then display_results
Next ==
    \/ \E paths \in Batches, l \in Langs : Call(paths, l)
    \/ Submit
    \/ Return
    \/ Display
    \/ Start
    \/ \E u \in 1..N : Gate(u)
    \/ \E u \in 1..N : CacheCheck(u)
    \/ \E u \in 1..N : PutHit(u)
    \/ \E u \in 1..N, o \in ConvertOutcomes : Convert(u, o)
    \/ \E u \in 1..N : PutBpgFailed(u)
    \/ \E u \in 1..N, o \in OpenFailures \cup {"ok"}, r \in OcrOutcomes : Recognize(u, o, r)
    \/ \E u \in 1..N : Report(u)
    \/ \E u \in 1..N : Store(u)
    \/ \E u \in 1..N, r \in RemoveOutcomes : Finally(u, r)
    \/ \E u \in 1..N : Except(u)

Spec == Init /\ [][Next]_vars

\* ------------------------------------------------------------ fairness
\* the steps of the calling thread inside process_images
MainStep == Submit \/ Return

\* the steps of the pool thread that executes unit u
UnitStep(u) ==
    \/ Gate(u)
    \/ CacheCheck(u)
    \/ PutHit(u)
    \/ \E o \in ConvertOutcomes : Convert(u, o)
    \/ PutBpgFailed(u)
    \/ \E o \in OpenFailures \cup {"ok"}, r \in OcrOutcomes : Recognize(u, o, r)
    \/ Report(u)
    \/ Store(u)
    \/ \E r \in RemoveOutcomes : Finally(u, r)
    \/ Except(u)

\* the operating system schedules every thread that can take a step, the
\* executor hands a queued item to a free thread, and every external call
\* (probe, decode, open, OCR, remove) returns or raises
Fairness ==
    /\ WF_vars(MainStep)
    /\ WF_vars(Start)
    /\ \A u \in Units : WF_vars(UnitStep(u))

\* the batches of the fair specification: every list, up to the batch
\* bound, of a path whose open fails and a path that goes through
\* conversion, recognition, the cache and the cleanup
FairBatches == UNION {[1..n -> {x_jpg, s_BPG}] : n \in 0..MaxBatch}

FairNext ==
    \/ \E paths \in FairBatches : Call(paths, DEFAULT_LANG)
    \/ MainStep
    \/ Display
    \/ Start
    \/ \E u \in 1..N : UnitStep(u)

\* one call of process_images under fair scheduling
FairSpec == Init /\ [][FairNext]_vars /\ Fairness

\* ---------------------------------------------------- main(): the session
\* the characters the second strip() of line 122 removes
Quotes == {"'", "\""}

RECURSIVE LStripQuotes(_)
LStripQuotes(s) == IF s # <<>> /\ Head(s) \in Quotes THEN LStripQuotes(Tail(s)) ELSE s

RECURSIVE RStripQuotes(_)
RStripQuotes(s) ==
    IF s # <<>> /\ s[Len(s)] \in Quotes THEN RStripQuotes(SubSeq(s, 1, Len(s) - 1)) ELSE s

\* str.strip("'\"")
StripQuotes(s) == RStripQuotes(LStripQuotes(s))

\* the sentinel of line 123
quit == <<"q", "u", "i", "t">>

\* The directories of the run: d holds n.txt, a.png and w.bmp, e holds
\* n.txt only; z names nothing.
d_dir == <<"d">>
e_dir == <<"e">>
nowhere == <<"z">>

\* os.path.isdir
IsDir(x) == x \in {d_dir, e_dir}

\* faulty variant of IsFile: whatever is not a directory is taken for a file
IsFile_Unchecked(x) == TRUE

\* os.path.isfile
IsFile(x) == x \in Paths

\* the file names os.walk lists in a directory
ListDir(x) ==
    CASE x = d_dir -> <<n_txt, a_png, w_bmp>>
      [] x = e_dir -> <<n_txt>>
      [] OTHER     -> <<>>

\* line 134: file.lower().endswith(SUPPORTED_FORMATS)
Eligible(file) == EndsWith(Lower(file), SUPPORTED_FORMATS)

\* os.path.join(root, file)
Join(root, file) == root \o <<"/">> \o file

\* lines 132-135: the eligible files of a directory, joined to its name
Walk(x) ==
    LET found == SelectSeq(ListDir(x), Eligible)
    IN  [i \in 1..Len(found) |-> Join(x, found[i])]

\* the lines typed at the first prompt
RawInputs ==
    { quit, <<"Q", "u", "i", "t">>,
      <<"'">> \o a_png \o <<"'">>, <<" ">> \o s_BPG, n_txt,
      nowhere, d_dir, e_dir }

\* the lines typed at the second prompt
LangInputs == {"", "chi_sim"}

\* line 127: the language typed, or the default for an empty line
LangOf(l) == IF l = "" THEN DEFAULT_LANG ELSE l

\* what an iteration that skips or quits leaves alone
kept == <<calls, image_paths, lang, max_workers, unitvars, cache, result_queue,
          tempfiles, printed, history>>

\* lines 121-150: one pass of the loop from the prompt to the call of
\* process_images, to the continue of line 140 or 144, or to the break
Iteration(raw, l) ==
    /\ mainpc = "idle"
    /\ LET user_input == StripQuotes(Strip(raw))
           paths == IF IsDir(user_input) THEN Walk(user_input)
                    ELSE IF IsFile(user_input) THEN <<user_input>>
                    ELSE <<>>
           note(r) == [input |-> user_input, report |-> r,
                       skipped |-> session.report \in {"invalid_path", "no_images"}]
       IN  IF Lower(user_input) = quit
             THEN /\ mainpc' = "exited"
                  /\ session' = note("exited")
                  /\ UNCHANGED kept
           ELSE IF ~IsDir(user_input) /\ ~IsFile(user_input)
             THEN /\ session' = note("invalid_path")
                  /\ UNCHANGED <<mainpc, kept>>
           ELSE IF paths = <<>>
             THEN /\ session' = note("no_images")
                  /\ UNCHANGED <<mainpc, kept>>
           ELSE /\ calls < MaxCalls
                /\ Dispatch(paths, LangOf(l))
                /\ session' = note("started")

SessionNext ==
    \/ \E raw \in RawInputs, l \in LangInputs : Iteration(raw, l)
    \/ MainStep
    \/ Display
    \/ Start
    \/ \E u \in 1..N : UnitStep(u)

\* a session of main(): prompts, calls of process_images and
\* display_results until quit
SessionSpec == Init /\ [][SessionNext]_vars

\* ============================================================ claims
\* the kinds of the messages a sequence holds, in order
Kinds(q) == [i \in 1..Len(q) |-> q[i].kind]

\* how many times message m occurs in sequence q
Count(q, m) == Cardinality({i \in 1..Len(q) : q[i] = m})

\* the messages of the run: every message some unit has put
Messages == UNION {{pushed[u][i] : i \in 1..Len(pushed[u])} : u \in Units}

\* the units of the batch that invoked OCR
OcrUnits == {u \in 1..N : "ocr" \in ops[u]}

\* the kinds that report a failure
ErrorKinds == {"unsupported_format", "bpg_failed", "file_not_found", "permission_denied",
               "tesseract_missing", "error"}

\* C1: when process_images returns, the sink holds exactly N messages, one
\* for each submitted occurrence of a path, whatever the paths are and
\* however many units fail.
C1_OneMessagePerOccurrence ==
    mainpc = "returned" =>
        /\ Len(result_queue) = N
        /\ \A u \in 1..N : Len(pushed[u]) = 1 /\ pushed[u][1].path = image_paths[u]

\* C2: the batch [a.png, a.png], with every OCR of a.png answering text,
\* ends under every interleaving with a recognized-text message followed by
\* a from-cache message carrying the same text, after one OCR invocation.
C2_SecondRequestHitsCache ==
    ( /\ mainpc = "returned"
      /\ image_paths = <<a_png, a_png>>
      /\ \A u \in OcrUnits : text[u] # NoText ) =>
        /\ Kinds(result_queue) = <<"recognized", "from_cache">>
        /\ result_queue[1].body = result_queue[2].body
        /\ Cardinality(OcrUnits) = 1

\* C3: a temporary file created by convert_bpg_to_png no longer exists when
\* the recognize_image_content call that created it has returned, on every
\* exit path, a failed decode included.
C3_TempFileGoneAtReturn ==
    \A u \in 1..N : pc[u] = "done" /\ created[u] # NoFile => created[u] \notin tempfiles

\* a unit for whose path a successful recognition had returned when it started
AfterRecognition(u) == "recognized" \in prior[u]

\* C4: once a recognition of path p has returned successfully, every later
\* request for p puts one from-cache message carrying the cached text, the
\* text the recognition reported, and makes no decode, open or OCR call.
C4_LaterRequestServedFromCache ==
    \A u \in 1..N : AfterRecognition(u) =>
        /\ ops[u] \subseteq {"cache_read"}
        /\ created[u] = NoFile
        /\ pc[u] = "done" =>
            /\ pushed[u] = <<Msg(image_paths[u], "from_cache", cache[image_paths[u]])>>
            /\ \E m \in Messages : /\ m.kind = "recognized"
                                   /\ m.path = image_paths[u]
                                   /\ m.body = pushed[u][1].body

\* C4, reached: a .bpg unit that started after a recognition of its path returned has itself returned
C4_Witness ==
    \E u \in 1..N : AfterRecognition(u) /\ pc[u] = "done" /\ image_paths[u] = s_BPG

\* C5: a unit that fails, also with an unclassified exception, aborts
\* neither the dispatcher nor a sibling: no exception leaves a unit, every
\* unit that returned has put a message, and when process_images returns
\* every unit of the batch has run once and returned.
C5_FailureStaysInItsUnit ==
    /\ \A u \in 1..N : pc[u] = "done" => exc[u] = None /\ pushed[u] # <<>>
    /\ mainpc = "returned" =>
          \A u \in 1..N : pc[u] = "done" /\ runs[u] = 1 /\ pushed[u][1].path = image_paths[u]

\* C5, reached: a batch of two has returned, the first unit reported an unclassified error and its sibling recognized text
C5_Witness ==
    /\ mainpc = "returned"
    /\ N = 2
    /\ pushed[1][1].kind = "error"
    /\ pushed[2][1].kind = "recognized"

\* process_images has returned
AfterReturn == mainpc \in {"returned", "display"} \/ (mainpc = "idle" /\ calls > 0)

\* every message put so far, unit by unit
RECURSIVE PushedUpTo(_)
PushedUpTo(k) == IF k = 0 THEN <<>> ELSE PushedUpTo(k - 1) \o pushed[k]

AllPushed == PushedUpTo(MaxBatch)

\* C6: process_images returns only after every submitted unit has
\* completed: once it has returned no unit is queued or running, and every
\* message of the batch is in the sink or already drained from it.
C6_ReturnsAfterAllUnits ==
    AfterReturn =>
        /\ \A u \in 1..N : pc[u] = "done"
        /\ work_queue = <<>>
        /\ Running = {}
        /\ Len(result_queue) + Len(printed) = Len(AllPushed)

\* C6, reached: process_images has just returned from a batch of two run by two workers, both messages in the sink
C6_Witness == mainpc = "returned" /\ N = 2 /\ max_workers = 2 /\ Len(result_queue) = 2

\* the paths of the run whose lower-cased suffix is none of .jpg .png .bmp .bpg
UnsupportedPaths == {n_txt}

\* C7: a unit for a path with an unsupported suffix puts exactly one
\* unsupported-format message and makes no cache, decode, open or OCR
\* call; a path with a supported suffix, in any letter case, is never
\* rejected by the gate.
C7_GateShortCircuits ==
    \A u \in 1..N :
        /\ image_paths[u] \in UnsupportedPaths =>
              /\ ops[u] = {}
              /\ created[u] = NoFile
              /\ pc[u] \in {"none", "queued", "gate", "done"}
              /\ pc[u] = "done" =>
                    pushed[u] = <<Msg(image_paths[u], "unsupported_format", NoText)>>
        /\ image_paths[u] \notin UnsupportedPaths =>
              /\ \A i \in 1..Len(pushed[u]) : pushed[u][i].kind # "unsupported_format"
              /\ pc[u] = "done" => "cache_read" \in ops[u]

\* C7, reached: an unsupported path was rejected and a sibling with an upper-case supported suffix went through OCR
C7_Witness ==
    /\ N = 2
    /\ image_paths = <<n_txt, s_BPG>>
    /\ pc[1] = "done" /\ pc[2] = "done"
    /\ "ocr" \in ops[2]

\* C8: pushes by concurrent workers lose and duplicate no message, and the
\* drain by display_results ends with the sink empty and every message
\* that was put printed exactly once.
C8_NoMessageLostOrDuplicated ==
    /\ Len(printed) + Len(result_queue) = Len(AllPushed)
    /\ \A m \in Messages : Count(printed \o result_queue, m) = Count(AllPushed, m)
    /\ mainpc = "idle" /\ calls > 0 => result_queue = <<>> /\ Len(printed) = Len(AllPushed)

\* C8, reached: the drain has ended after two workers put their messages in the reverse of the submission order
C8_Witness ==
    /\ mainpc = "idle"
    /\ N = 2
    /\ printed = <<pushed[2][1], pushed[1][1]>>
    /\ pushed[1][1] # pushed[2][1]

\* the probe of the unit found the decode tool absent
ToolMissing(u) == "print_missing" \in ops[u]

\* the decode invocation of the unit failed
DecodeFailed(u) == "print_decode_failed" \in ops[u]

Blank(t) == \A i \in 1..Len(t) : t[i] \in Whitespace

\* OCR answered unit u with blank text
GotBlank(u) == text[u] # NoText /\ Blank(text[u])

Raised(u) == {e \in OpenFailures \cup OcrOutcomes : ("raise_" \o e) \in ops[u]}

\* the kind of message the specification assigns to a failure
FailureKind(e) ==
    CASE e = "FileNotFoundError" -> "file_not_found"
      [] e = "PermissionError" -> "permission_denied"
      [] e = "TesseractNotFoundError" -> "tesseract_missing"
      [] OTHER -> "error"

\* the one message the specification assigns to failure e on path p
FailureMsg(p, e) ==
    Msg(p, FailureKind(e), IF FailureKind(e) = "error" THEN StrOf(e) ELSE NoText)

\* C11: every failure raised while opening, normalizing or recognizing an
\* image leaves the cache unwritten by that unit and, once the unit has
\* returned, exactly one message in the sink for it: the message of the
\* failure's kind, naming the path (and carrying the failure text when the
\* failure is none of the three named kinds).
C11_FailureReportedByKind ==
    \A u \in 1..N : \A e \in Raised(u) :
        /\ "cache_write" \notin ops[u]
        /\ pc[u] = "done" => pushed[u] = <<FailureMsg(image_paths[u], e)>>

\* the units whose path went through BPG conversion successfully
Converted(u) == "decode" \in ops[u] /\ temp_png_path[u] # NoFile

BpgPaths == {s_BPG}

\* C15: a unit for a .bpg path has put exactly one message when it has
\* returned, on every exit path; the sink never gets an outcome message
\* and an error message for the same occurrence.
C15_BpgUnitPushesOnce ==
    \A u \in 1..N : image_paths[u] \in BpgPaths /\ pc[u] = "done" =>
        /\ Len(pushed[u]) = 1
        /\ ~ \E i, j \in 1..Len(pushed[u]) :
                /\ pushed[u][i].kind \in {"recognized", "no_text"}
                /\ pushed[u][j].kind \in ErrorKinds

\* the positions of unit u in the work queue
QueuedAt(u) == {i \in 1..Len(work_queue) : work_queue[i] = u}

\* C16: with K worker threads at most K units are executing at any moment,
\* also when the batch is larger than K; every occurrence of a path is
\* taken from the work queue once and executed once: never skipped (all
\* have run when process_images returns) and never run a second time.
C16_AtMostKExecuting ==
    /\ Cardinality(Running) <= max_workers
    /\ \A u \in 1..N :
          /\ runs[u] <= 1
          /\ pc[u] = "queued" => runs[u] = 0 /\ Cardinality(QueuedAt(u)) = 1
          /\ pc[u] \notin {"none", "queued"} => runs[u] = 1 /\ QueuedAt(u) = {}
    /\ AfterReturn => \A u \in 1..N : runs[u] = 1

\* C16, reached: a batch larger than the pool with one unit executing and the other waiting in the queue
C16_Witness ==
    /\ N > max_workers
    /\ Cardinality(Running) = max_workers
    /\ work_queue # <<>>
    /\ mainpc = "wait"

\* everything put into the sink during the call, in the order of the puts:
\* what display_results has printed, then what the sink still holds
SinkLog == printed \o result_queue

\* C19: under every interleaving, a from-cache message for path p stands in
\* the sink only behind a recognized-text message for p that carries the
\* same text: the sink never shows a cache hit for a path without an
\* earlier recognition message for it.
C19_HitFollowsRecognition ==
    \A i \in 1..Len(SinkLog) : SinkLog[i].kind = "from_cache" =>
        \E j \in 1..(i - 1) : SinkLog[j] = Msg(SinkLog[i].path, "recognized", SinkLog[i].body)

\* C19, reached: two units of one call raced on a path and the sink holds the recognition message and behind it the cache hit
C19_Witness ==
    /\ mainpc = "returned"
    /\ \E i \in 1..Len(SinkLog) : SinkLog[i].kind = "from_cache" /\ SinkLog[i].body # NoText

\* the units that wrote nothing worth caching: their first message reports
\* a failure or that no text was found
Fruitless(u) == pushed[u] # <<>> /\ pushed[u][1].kind \in ErrorKinds \cup {"no_text"}

C12_EventuallyReturns ==
    /\ (mainpc \in {"submit", "wait"}) ~> (mainpc = "returned")
    /\ \A u \in Units : (pc[u] = "queued") ~> (pc[u] = "done" /\ runs[u] = 1)

\* C12, reached: a batch of two on a pool of one has returned, the first unit having failed and the second having run after it
C12_Witness ==
    /\ mainpc = "returned"
    /\ N = 2
    /\ max_workers = 1
    /\ pushed[1] # <<>> /\ pushed[1][1].kind \in {"file_not_found", "permission_denied", "error"}
    /\ pc[2] = "done" /\ runs[2] = 1

\* the inputs that name neither a file nor a directory, and the
\* directories without an eligible file
InvalidInputs == {nowhere}
EmptyDirs == {e_dir}

\* main() read a line in this step
ReadsInput == session' # session

\* C13: in the session loop an input that names neither a file nor a
\* directory, and a directory without an eligible file, is reported and
\* only that iteration is skipped: process_images is not called, the cache
\* and the sink stay as they are, and the loop is at the next prompt; the
\* loop ends only when the line read is the quit command.
C13_InvalidInputSkipsIteration ==
    /\ [][ReadsInput /\ session'.input \in InvalidInputs \cup EmptyDirs =>
            /\ session'.report =
                  IF session'.input \in InvalidInputs THEN "invalid_path" ELSE "no_images"
            /\ calls' = calls
            /\ cache' = cache
            /\ result_queue' = result_queue
            /\ pc' = pc
            /\ mainpc' = "idle"]_vars
    /\ [][mainpc' = "exited" /\ mainpc # "exited" =>
            ReadsInput /\ Lower(session'.input) = quit]_vars
    /\ [](session.report \in {"invalid_path", "no_images"} => mainpc = "idle")

\* C13, reached: after a call that filled the cache two iterations in a row were skipped, for an invalid path and then for an empty directory, and the loop is at the prompt
C13_Witness ==
    /\ mainpc = "idle"
    /\ calls = 1
    /\ DOMAIN cache # {}
    /\ session.input = e_dir
    /\ session.report = "no_images"
    /\ session.skipped

\* the languages under which OCR returns the text the cache holds for p
RecognizedUnder(p) == {l \in Langs : OcrText(p, l) = cache[p]}

\* C17: the cache is keyed by the path alone: once a recognition of path p
\* has returned successfully under one language, a later request for p is
\* a cache hit whatever language it asks for; it reports the text
\* recognized under the first language, not the text of its own language,
\* and never invokes OCR.
C17_CacheKeyedByPathAlone ==
    \A u \in 1..N : AfterRecognition(u) =>
        /\ "ocr" \notin ops[u]
        /\ pc[u] \notin {"convert", "recognize", "report", "store"}
        /\ pc[u] = "done" =>
            /\ pushed[u] = <<Msg(image_paths[u], "from_cache", cache[image_paths[u]])>>
            /\ RecognizedUnder(image_paths[u]) # {}
            /\ lang \notin RecognizedUnder(image_paths[u]) =>
                  pushed[u][1].body # OcrText(image_paths[u], lang)

\* C17, reached: a.png was recognized under eng in the first call and a request for it under chi_sim in the second call has returned the eng text
C17_Witness ==
    /\ calls = 2
    /\ lang = "chi_sim"
    /\ image_paths = <<a_png>>
    /\ pc[1] = "done"
    /\ pushed[1] = <<Msg(a_png, "from_cache", OcrText(a_png, "eng"))>>

\* C20: in the session loop the sink is empty whenever main() is at the
\* prompt and whenever process_images is called, so what display_results
\* prints in an iteration is exactly what the units of that iteration's
\* batch put: nothing is carried over to a later iteration, also after
\* skipped iterations.
C20_SinkEmptyBetweenIterations ==
    /\ mainpc \in {"idle", "exited"} => result_queue = <<>>
    /\ mainpc = "submit" /\ (\A u \in 1..N : pc[u] = "none") => result_queue = <<>>
    /\ Len(SinkLog) = Len(AllPushed)
    /\ \A m \in Messages : Count(SinkLog, m) = Count(AllPushed, m)
    /\ \A i \in 1..Len(printed) : \E u \in 1..N : printed[i].path = image_paths[u]
    /\ mainpc = "idle" => Len(printed) = Len(AllPushed)

\* C20, reached: the second call of a session, made after a skipped iteration, has been displayed: two messages, both of its own batch
C20_Witness ==
    /\ calls = 2
    /\ session.skipped
    /\ session.report = "started"
    /\ mainpc = "idle"
    /\ Len(printed) = 2

====
